---- MODULE Spec2Model ----
(***************************************************************************)
(* Model of the LUMEN semantic retrieval engine (rag_engine.py) together   *)
(* with the relational lookup it reads (database.py).                      *)
(*                                                                         *)
(* Numbers: money amounts are integers in thousandths of a currency unit,  *)
(* cosine distances are integers in ten-thousandths, similarity scores are *)
(* integers in thousandths (the result of round(.., 3)).                   *)
(* Texts are records tagged by "kind": a free query is a sequence of       *)
(* characters, a canonical description is the tuple of the rendered parts. *)
(***************************************************************************)
EXTENDS Integers, Sequences, FiniteSets, TLC

\* ------------------------------------------------------------------ bounds
MaxTx == 3          \* transaction ids used by callers: 1..MaxTx
MaxRows == 1        \* rows the relational store may hold
MaxItems == 2       \* items of a record handed to the description builder alone
MaxListLen == 12    \* length of the item lists grown one item at a time
MaxNeighbours == 4  \* neighbours handed to the summarizer alone
MaxExtra == 3       \* records added on top of a collection near the sample limit
MaxThreads == 2     \* request threads of the server running at the same time
MaxConcIds == 2     \* transaction ids the concurrent requests add

\* ------------------------------------------------------- program constants
MaxResults == 100   \* the clamp on n_results
MaxItemsShown == 10 \* items listed in a description
StatsSampleLimit == 100 \* records read by the statistics

\* ------------------------------------------------------------------ values
\* Python values that may be a number, None or a non-numeric string.
Num(v) == [t |-> "num", v |-> v]
NoneVal == [t |-> "none", v |-> 0]
StrVal == [t |-> "str", v |-> 0]

Min(a, b) == IF a <= b THEN a ELSE b
Max(a, b) == IF a >= b THEN a ELSE b
Abs(a) == IF a >= 0 THEN a ELSE 0 - a

\* round-half-even of n/d for n >= 0, d > 0 (Python's round / format rule)
RoundDiv(n, d) ==
    LET q == n \div d
        r == n % d
    IN  IF 2 * r < d THEN q
        ELSE IF 2 * r > d THEN q + 1
        ELSE IF q % 2 = 0 THEN q ELSE q + 1

\* Python truthiness of a number-ish value: None and 0 are falsy
Truthy(x) == ~(x.t = "none" \/ (x.t = "num" /\ x.v = 0))

\* f"{x:.2f}": defined for numbers only; result in hundredths
CanFormat(x) == x.t = "num"
Format2f(x) == RoundDiv(x.v, 10)

\* ---------------------------------------------------------- sample inputs
Item(n, p) == [hasName |-> TRUE, name |-> n, price |-> p]
NoNameItem(p) == [hasName |-> FALSE, name |-> "", price |-> p]

Tx(v, c, i, d, a) == [vendor |-> v, category |-> c, items |-> i, date |-> d, amount |-> a]

\* what callers pass to the engine: a complete record, a record with every
\* field absent, and a record whose total was not extracted (None)
TxInputs ==
    { Tx("Walmart", "groceries", << Item("Milk", Num(3990)) >>, "2024-01-15", Num(15610)),
      Tx("", "", << >>, "", Num(0)),
      Tx("Costco", "groceries", << >>, "2024-01-20", NoneVal) }

TxIds == 1 .. MaxTx

\* free-text queries, as sequences of characters
Queries ==
    { << >>,
      << " ", " ", " " >>,
      << "f", "o", "o", "d" >>,
      << " ", "g", "a", "s" >> }

Ks == { -1, 0, 1, 2, 101 }

\* outcome of the external calls of one request
Faults == { "none", "embed", "index" }

\* ---------------------------------------------------- DescriptionBuilder
\* item_names of _create_transaction_text: named items, rendered
RECURSIVE ItemNames(_)
ItemNames(items) ==
    IF items = << >> THEN << >>
    ELSE LET it == Head(items)
             rest == ItemNames(Tail(items))
         IN  IF it.hasName
             THEN << [name |-> it.name, price |-> Format2f(it.price)] >> \o rest
             ELSE rest

\* the item loop raises when a named item's price cannot be formatted
ItemsRaise(items) ==
    \E i \in 1 .. Len(items) : items[i].hasName /\ ~CanFormat(items[i].price)

OrDefault(s, d) == IF s = "" THEN d ELSE s

\* variant: every named item is listed, the slice [:10] is forgotten
FullText_NoLimit(vendor, category, items, date, amount) ==
    LET names == ItemNames(items)
    IN  [kind |-> "description",
         vendor |-> OrDefault(vendor, "unknown store"),
         date |-> OrDefault(date, "unknown date"),
         category |-> OrDefault(category, "general"),
         amount |-> Format2f(amount),
         items |-> names,
         more |-> IF names # << >> /\ Len(items) > MaxItemsShown
                  THEN Len(items) - MaxItemsShown ELSE 0]

FullText(vendor, category, items, date, amount) ==
    LET names == ItemNames(items)
    IN  [kind |-> "description",
         vendor |-> OrDefault(vendor, "unknown store"),
         date |-> OrDefault(date, "unknown date"),
         category |-> OrDefault(category, "general"),
         amount |-> Format2f(amount),
         items |-> SubSeq(names, 1, Min(Len(names), MaxItemsShown)),
         more |-> IF names # << >> /\ Len(items) > MaxItemsShown
                  THEN Len(items) - MaxItemsShown ELSE 0]

FallbackText(vendor, amount) ==
    [kind |-> "fallback",
     vendor |-> OrDefault(vendor, "unknown"),
     date |-> "", category |-> "",
     amount |-> Format2f(amount),
     items |-> << >>, more |-> 0]

\* _create_transaction_text: raised = TRUE when the except branch itself fails
CreateTransactionText(vendor, category, items, date, amount) ==
    IF ~ItemsRaise(items) /\ CanFormat(amount)
    THEN [raised |-> FALSE, text |-> FullText(vendor, category, items, date, amount)]
    ELSE IF CanFormat(amount)
    THEN [raised |-> FALSE, text |-> FallbackText(vendor, amount)]
    ELSE [raised |-> TRUE, text |-> FallbackText(vendor, Num(0))]

\* ------------------------------------------------------- EmbeddingGateway
\* whitespace test of str.strip(): the text is blank when nothing is left
RECURSIVE LStrip(_)
LStrip(s) == IF s # << >> /\ Head(s) = " " THEN LStrip(Tail(s)) ELSE s

RECURSIVE RStrip(_)
RStrip(s) ==
    IF s # << >> /\ s[Len(s)] = " " THEN RStrip(SubSeq(s, 1, Len(s) - 1)) ELSE s

Strip(s) == RStrip(LStrip(s))

QueryText(s) == [kind |-> "query", s |-> s]

\* a query that is not a string (None)
NoneQuery == [kind |-> "none", s |-> << >>]

\* what a caller may pass as query
QueryValues == { QueryText(q) : q \in Queries } \cup { NoneQuery }

\* variant: the query is tested without strip()
IsBlank_NoStrip(text) == text.kind = "query" /\ text.s = << >>

\* "if not query.strip()": a built description is never blank
IsBlank(text) == text.kind = "query" /\ Strip(text.s) = << >>

\* embedding_model.encode: a fixed deterministic map from text to a vector;
\* vectors are points whose pairwise cosine distance is the gap between them
Embed(text) ==
    IF text.kind = "query"
    THEN (IF Strip(text.s) = << "f", "o", "o", "d" >> THEN 4
          ELSE IF Strip(text.s) = << "g", "a", "s" >> THEN 5006
          ELSE 9000)
    ELSE IF text.kind = "fallback" THEN 8000
    ELSE IF text.category = "groceries" THEN 0
    ELSE 5000

Distance(a, b) == Abs(a - b)

\* ------------------------------------------------------------ VectorIndex
\* variant: the id does not follow the transaction id
RecordId_Fixed(tid) == << "transaction_", 1 >>

\* ids=[f"transaction_{transaction_id}"]
RecordId(tid) == << "transaction_", tid >>

IndexIds(idx) == { idx[i].id : i \in 1 .. Len(idx) }

\* collection.add of one record.  An id already present is not replaced:
\* depending on the library version the call raises or is ignored.
CollectionAdd(idx, rec, indexOk, dupRaises) ==
    IF ~indexOk THEN [raised |-> TRUE, idx |-> idx]
    ELSE IF rec.id \in IndexIds(idx)
    THEN [raised |-> dupRaises, idx |-> idx]
    ELSE [raised |-> FALSE, idx |-> Append(idx, rec)]

\* variant: the records are returned in insertion order, unranked
Rank_InsertionOrder(idx, qvec, i) == i

\* position of record i in the ranking: ascending distance, earliest first
Rank(idx, qvec, i) ==
    1 + Cardinality({ j \in 1 .. Len(idx) :
            \/ Distance(qvec, idx[j].embedding) < Distance(qvec, idx[i].embedding)
            \/ /\ Distance(qvec, idx[j].embedding) = Distance(qvec, idx[i].embedding)
               /\ j < i })

\* the records by rank (the ranks are computed once, as a table)
Ranked(idx, qvec) ==
    LET at == { << Rank(idx, qvec, i), i >> : i \in 1 .. Len(idx) }
    IN  [r \in 1 .. Len(idx) |->
            LET i == (CHOOSE p \in at : p[1] = r)[2]
            IN  [rec |-> idx[i], distance |-> Distance(qvec, idx[i].embedding)]]

\* collection.query: n_results <= 0 is rejected, more than the collection
\* holds yields the whole collection
CollectionQuery(idx, qvec, n, indexOk) ==
    IF ~indexOk \/ n <= 0 THEN [raised |-> TRUE, rows |-> << >>]
    ELSE [raised |-> FALSE, rows |-> SubSeq(Ranked(idx, qvec), 1, Min(n, Len(idx)))]

\* ------------------------------------------------------- relational store
\* json.dumps / json.loads of the items column
\* The items value of a transaction as Python holds it: a list, None, or a
\* string of len characters that is the JSON text of the list v (valid) or
\* no JSON at all.
PyList(items) == [k |-> "list", v |-> items, valid |-> TRUE, len |-> Len(items)]
PyNone == [k |-> "none", v |-> << >>, valid |-> FALSE, len |-> 0]
PyStr(items, valid, len) == [k |-> "str", v |-> items, valid |-> valid, len |-> len]

\* `items_json and isinstance(items_json, list)`: the list the builder walks
ListOf(x) == IF x.k = "list" THEN x.v ELSE << >>

\* the items_json column: NULL, or a text that is the JSON of a list or is not
NullColumn == [null |-> TRUE, valid |-> FALSE, json |-> << >>]
JsonDumps(items) == [null |-> FALSE, valid |-> TRUE, json |-> items]
JsonLoads(s) == IF s.valid THEN PyList(s.json) ELSE PyStr(<< >>, FALSE, 1)

\* what save_transaction and update_transaction bind to the column: a list
\* is dumped, anything else is stored as it is
ItemsColumn(x) ==
    IF x.k = "list" THEN JsonDumps(x.v)
    ELSE IF x.k = "none" THEN NullColumn
    ELSE [null |-> FALSE, valid |-> x.valid, json |-> IF x.valid THEN x.v ELSE << >>]

NoRow == [id |-> 0, vendor |-> "", date |-> "", amount |-> NoneVal,
          category |-> "", items_json |-> PyNone]

\* database.get_transaction: the row with items_json parsed back, or None
GetTransaction(rows, tid) ==
    IF \E i \in 1 .. Len(rows) : rows[i].id = tid
    THEN LET r == rows[CHOOSE i \in 1 .. Len(rows) : rows[i].id = tid]
         IN  [found |-> TRUE,
              row |-> [r EXCEPT !.items_json = IF r.items_json.null THEN PyNone
                                                 ELSE JsonLoads(r.items_json)]]
    ELSE [found |-> FALSE, row |-> NoRow]

\* ------------------------------------------------------- RetrievalService
\* variant: the fields are stored as they come, without "or" defaults
Metadata_NoDefaults(tid, tx) ==
    [transaction_id |-> tid,
     vendor |-> tx.vendor,
     category |-> tx.category,
     date |-> tx.date,
     amount |-> IF Truthy(tx.amount) THEN tx.amount.v ELSE 0,
     item_count |-> Len(tx.items)]

\* metadata dict of add_transaction_to_vector_db
Metadata(tid, tx) ==
    [transaction_id |-> tid,
     vendor |-> OrDefault(tx.vendor, "unknown"),
     category |-> OrDefault(tx.category, "other"),
     date |-> OrDefault(tx.date, "unknown"),
     amount |-> IF Truthy(tx.amount) THEN tx.amount.v ELSE 0,
     item_count |-> Len(tx.items)]

\* variant: the distance itself is rounded and reported as the score
SimilarityScore_NoInvert(distance) == RoundDiv(distance, 10)

\* round(1 - distance, 3), in thousandths
SimilarityScore(distance) == RoundDiv(10000 - distance, 10)

\* one formatted entry of get_similar_transactions
ResultEntry(row) ==
    [transaction_id |-> row.rec.metadata.transaction_id,
     vendor |-> row.rec.metadata.vendor,
     category |-> row.rec.metadata.category,
     date |-> row.rec.metadata.date,
     amount |-> row.rec.metadata.amount,
     item_count |-> row.rec.metadata.item_count,
     description |-> row.rec.document,
     similarity_score |-> SimilarityScore(row.distance)]

\* variant: the caller's k is passed to the index as it is
NResults_NoClamp(k) == k

\* n_results=min(k, 100)
NResults(k) == Min(k, MaxResults)

\* RAGEngine.get_similar_transactions; embedCalls and nRequested record the
\* calls made to the embedding model and to collection.query
\* variant: the index query is made outside the try block
GetSimilarTransactions_NoCatch(idx, text, k, fault) ==
    IF text.kind = "none" \/ IsBlank(text)
    THEN [out |-> << >>, embedCalls |-> 0, nRequested |-> << >>, raised |-> FALSE]
    ELSE IF fault = "embed"
    THEN [out |-> << >>, embedCalls |-> 1, nRequested |-> << >>, raised |-> FALSE]
    ELSE LET qr == CollectionQuery(idx, Embed(text), NResults(k), fault # "index")
         IN  [out |-> IF qr.raised THEN << >>
                      ELSE [i \in 1 .. Len(qr.rows) |-> ResultEntry(qr.rows[i])],
              embedCalls |-> 1,
              nRequested |-> << NResults(k) >>,
              raised |-> qr.raised]

\* every exception (query.strip() on a non-string, the embedding, the index
\* query) is caught and answered with []: raised tells whether one escapes
GetSimilarTransactions(idx, text, k, fault) ==
    IF text.kind = "none" \/ IsBlank(text)
    THEN [out |-> << >>, embedCalls |-> 0, nRequested |-> << >>, raised |-> FALSE]
    ELSE IF fault = "embed"
    THEN [out |-> << >>, embedCalls |-> 1, nRequested |-> << >>, raised |-> FALSE]
    ELSE LET qr == CollectionQuery(idx, Embed(text), NResults(k), fault # "index")
         IN  [out |-> IF qr.raised THEN << >>
                      ELSE [i \in 1 .. Len(qr.rows) |-> ResultEntry(qr.rows[i])],
              embedCalls |-> 1,
              nRequested |-> << NResults(k) >>,
              raised |-> FALSE]

\* Python's s[:k]
SliceTo(s, k) ==
    IF k >= 0 THEN SubSeq(s, 1, Min(k, Len(s)))
    ELSE SubSeq(s, 1, Max(0, Len(s) + k))

\* [t for t in similar if t['transaction_id'] != transaction_id]
SelectSeqNot(s, tid) == SelectSeq(s, LAMBDA t : t.transaction_id # tid)

\* variant: the current transaction is not filtered out
ContextTransactions_NoFilter(similar, tid, k) == SliceTo(similar, k)

\* variant: the filtered list is not cut to k
ContextTransactions_NoTruncate(similar, tid, k) == SelectSeqNot(similar, tid)

ContextTransactions(similar, tid, k) == SliceTo(SelectSeqNot(similar, tid), k)

\* ------------------------------------------------------------------ state
VARIABLES
    db,      \* rows of the transactions table, in id order
    index,   \* records of the collection, in insertion order
    last,    \* the request served last: its inputs, what it returned and did
    built,   \* result of the description built last on its own
    threads, \* position of each request thread of the server
    rag_engine, \* the module global: 0 for None, else the number of the instance
    instances,  \* RAGEngine instances constructed so far
    lastRowId   \* sqlite_sequence of the transactions table

vars == << db, index, last, built, threads, rag_engine, instances, lastRowId >>

NoTx == Tx("", "", << >>, "", Num(0))

NoBuilt == [called |-> FALSE, input |-> NoTx, raised |-> FALSE,
            text |-> FallbackText("", Num(0))]

\* a statistics dict with none of its keys set
NoStats ==
    [error |-> FALSE, has_total |-> FALSE, total_transactions |-> 0,
     has_figures |-> FALSE, unique_categories |-> 0, unique_vendors |-> 0,
     avg_amount |-> 0]

NoRequest ==
    [op |-> "none", tid |-> 0, k |-> 0, text |-> QueryText(<< >>), input |-> NoTx,
     fault |-> "none", raised |-> FALSE, ok |-> FALSE, found |-> FALSE, out |-> << >>,
     embedCalls |-> 0, nRequested |-> << >>, prev |-> << >>,
     summary |-> [text |-> "", parts |-> << >>], stats |-> NoStats,
     log |-> << >>, initTried |-> FALSE, addResult |-> "none",
     response |-> [success |-> FALSE, transaction_id |-> 0]]

\* a request thread between two requests
IdleThread == [pc |-> "idle", op |-> "none", tid |-> 0, n |-> 0]

Threads == 1 .. MaxThreads

NoThreads == [t \in Threads |-> IdleThread]

Init ==
    /\ db = << >>
    /\ index = << >>
    /\ last = NoRequest
    /\ built = NoBuilt
    /\ threads = NoThreads
    /\ rag_engine = 1
    /\ instances = 1
    /\ lastRowId = 0

\* database.save_transaction: AUTOINCREMENT id, items stored as JSON text
SaveTransaction(tx) ==
    /\ last.op = "none"
    /\ lastRowId < MaxRows
    /\ lastRowId' = lastRowId + 1
    /\ db' = Append(db, [id |-> lastRowId + 1, vendor |-> tx.vendor, date |-> tx.date,
                         amount |-> tx.amount, category |-> tx.category,
                         items_json |-> JsonDumps(tx.items)])
    /\ last' = [NoRequest EXCEPT !.op = "save", !.tid = lastRowId + 1, !.input = tx,
                                 !.ok = TRUE, !.prev = index]
    /\ UNCHANGED << index, built, threads, rag_engine, instances >>

\* variant: an embedding failure is swallowed and the record written anyway
AddTransaction_WriteOnEmbedFailure(tid, tx, fault, dupRaises) ==
    LET t == CreateTransactionText(tx.vendor, tx.category, tx.items, tx.date, tx.amount)
        rec == [id |-> RecordId(tid), embedding |-> 0,
                document |-> t.text, metadata |-> Metadata(tid, tx)]
        w == CollectionAdd(index, rec, fault # "index", dupRaises)
        fails == t.raised \/ fault = "embed" \/ w.raised
    IN  /\ last.op = "none"
        /\ index' = IF t.raised THEN index ELSE w.idx
        /\ last' = [NoRequest EXCEPT !.op = "add", !.tid = tid, !.input = tx,
                                     !.fault = fault, !.ok = ~fails,
                                     !.embedCalls = IF t.raised THEN 0 ELSE 1,
                                     !.prev = index]
        /\ UNCHANGED << db, built, threads, rag_engine, instances, lastRowId >>

\* RAGEngine.add_transaction_to_vector_db
AddTransaction(tid, tx, fault, dupRaises) ==
    LET t == CreateTransactionText(tx.vendor, tx.category, tx.items, tx.date, tx.amount)
        rec == [id |-> RecordId(tid), embedding |-> Embed(t.text),
                document |-> t.text, metadata |-> Metadata(tid, tx)]
        w == CollectionAdd(index, rec, fault # "index", dupRaises)
        fails == t.raised \/ fault = "embed" \/ w.raised
    IN  /\ last.op = "none"
        /\ index' = IF t.raised \/ fault = "embed" THEN index ELSE w.idx
        /\ last' = [NoRequest EXCEPT !.op = "add", !.tid = tid, !.input = tx,
                                     !.fault = fault, !.ok = ~fails,
                                     !.embedCalls = IF t.raised THEN 0 ELSE 1,
                                     !.prev = index]
        /\ UNCHANGED << db, built, threads, rag_engine, instances, lastRowId >>

\* RAGEngine.get_similar_transactions
FindSimilar(q, k, fault) ==
    LET r == GetSimilarTransactions(index, q, k, fault)
    IN  /\ last.op = "none"
        /\ last' = [NoRequest EXCEPT !.op = "find", !.k = k, !.text = q,
                                     !.fault = fault, !.ok = TRUE, !.out = r.out,
                                     !.raised = r.raised,
                                     !.embedCalls = r.embedCalls,
                                     !.nRequested = r.nRequested, !.prev = index]
        /\ UNCHANGED << db, index, built, threads, rag_engine, instances, lastRowId >>

\* variant: the similarity search runs before the lookup result is tested
ContextFor_SearchFirst(tid, k, fault) ==
    LET g == GetTransaction(db, tid)
        t == CreateTransactionText(g.row.vendor, g.row.category,
                                   ListOf(g.row.items_json), g.row.date, Num(0))
        r == GetSimilarTransactions(index, t.text, k + 1, fault)
        answered == g.found /\ CanFormat(g.row.amount)
    IN  /\ last.op = "none"
        /\ last' = [NoRequest EXCEPT !.op = "context", !.tid = tid, !.k = k,
                        !.fault = fault, !.ok = TRUE,
                        !.found = answered,
                        !.text = IF answered THEN t.text ELSE QueryText(<< >>),
                        !.out = IF answered THEN ContextTransactions(r.out, tid, k)
                                ELSE << >>,
                        !.embedCalls = r.embedCalls,
                        !.nRequested = r.nRequested,
                        !.prev = index]
        /\ UNCHANGED << db, index, built, threads, rag_engine, instances, lastRowId >>

\* variant: findSimilar is asked for k results, not k + 1
ContextFor_AskK(tid, k, fault) ==
    LET g == GetTransaction(db, tid)
        t == CreateTransactionText(g.row.vendor, g.row.category,
                                   ListOf(g.row.items_json), g.row.date, g.row.amount)
        r == GetSimilarTransactions(index, t.text, k, fault)
        answered == g.found /\ ~t.raised
    IN  /\ last.op = "none"
        /\ last' = [NoRequest EXCEPT !.op = "context", !.tid = tid, !.k = k,
                        !.fault = fault, !.ok = TRUE,
                        !.found = answered,
                        !.text = IF answered THEN t.text ELSE QueryText(<< >>),
                        !.out = IF answered THEN ContextTransactions(r.out, tid, k)
                                ELSE << >>,
                        !.embedCalls = IF answered THEN r.embedCalls ELSE 0,
                        !.nRequested = IF answered THEN r.nRequested ELSE << >>,
                        !.prev = index]
        /\ UNCHANGED << db, index, built, threads, rag_engine, instances, lastRowId >>

\* RAGEngine.retrieve_context_for_transaction
ContextFor(tid, k, fault) ==
    LET g == GetTransaction(db, tid)
        t == CreateTransactionText(g.row.vendor, g.row.category,
                                   ListOf(g.row.items_json), g.row.date, g.row.amount)
        r == GetSimilarTransactions(index, t.text, k + 1, fault)
        answered == g.found /\ ~t.raised
    IN  /\ last.op = "none"
        /\ last' = [NoRequest EXCEPT !.op = "context", !.tid = tid, !.k = k,
                        !.fault = fault, !.ok = TRUE,
                        !.found = answered,
                        !.text = IF answered THEN t.text ELSE QueryText(<< >>),
                        !.out = IF answered THEN ContextTransactions(r.out, tid, k)
                                ELSE << >>,
                        !.embedCalls = IF answered THEN r.embedCalls ELSE 0,
                        !.nRequested = IF answered THEN r.nRequested ELSE << >>,
                        !.prev = index]
        /\ UNCHANGED << db, index, built, threads, rag_engine, instances, lastRowId >>

\* collection.get(limit = n, include = ["metadatas"]): the first n records
CollectionGet(idx, n) == [i \in 1 .. Min(n, Len(idx)) |-> idx[i].metadata]

\* [m.get(key) for m in metadatas if m.get(key)], as the set of its values
TruthyValues(metadatas, key) ==
    { metadatas[i][key] : i \in { j \in 1 .. Len(metadatas) : metadatas[j][key] # "" } }

\* sum(amounts) and len(amounts) of the non-zero amounts of the sample
\* (the sum is taken value by value, each times the number of its occurrences)
RECURSIVE SumByValue(_, _)
SumByValue(values, metadatas) ==
    IF values = {} THEN 0
    ELSE LET a == CHOOSE x \in values : TRUE
         IN  a * Cardinality({ i \in 1 .. Len(metadatas) : metadatas[i].amount = a })
             + SumByValue(values \ { a }, metadatas)

AmountSum(metadatas) ==
    LET kept == { i \in 1 .. Len(metadatas) : metadatas[i].amount # 0 }
    IN  [sum |-> SumByValue({ metadatas[i].amount : i \in kept }, metadatas),
         len |-> Cardinality(kept)]

\* variant: the total is the size of the sample read
GetCollectionStats_SampleTotal(idx, indexOk) ==
    LET count == Len(idx)
        sample == CollectionGet(idx, Min(StatsSampleLimit, count))
        amounts == AmountSum(sample)
    IN  IF ~indexOk THEN [NoStats EXCEPT !.error = TRUE]
        ELSE IF count > 0
        THEN [NoStats EXCEPT !.has_total = TRUE, !.total_transactions = Len(sample),
                 !.has_figures = TRUE,
                 !.unique_categories = Cardinality(TruthyValues(sample, "category")),
                 !.unique_vendors = Cardinality(TruthyValues(sample, "vendor")),
                 !.avg_amount = IF amounts.len > 0
                                THEN RoundDiv(amounts.sum, 10 * amounts.len) ELSE 0]
        ELSE [NoStats EXCEPT !.has_total = TRUE]

\* RAGEngine.get_collection_stats; avg_amount in hundredths
GetCollectionStats(idx, indexOk) ==
    LET count == Len(idx)
        sample == CollectionGet(idx, Min(StatsSampleLimit, count))
        amounts == AmountSum(sample)
    IN  IF ~indexOk THEN [NoStats EXCEPT !.error = TRUE]
        ELSE IF count > 0
        THEN [NoStats EXCEPT !.has_total = TRUE, !.total_transactions = count,
                 !.has_figures = TRUE,
                 !.unique_categories = Cardinality(TruthyValues(sample, "category")),
                 !.unique_vendors = Cardinality(TruthyValues(sample, "vendor")),
                 !.avg_amount = IF amounts.len > 0
                                THEN RoundDiv(amounts.sum, 10 * amounts.len) ELSE 0]
        ELSE [NoStats EXCEPT !.has_total = TRUE]

\* variant: the sampled records are taken out of the collection
Stats_Consuming(fault) ==
    /\ last.op = "none"
    /\ last' = [NoRequest EXCEPT !.op = "stats", !.fault = fault, !.ok = fault # "index",
                                 !.stats = GetCollectionStats(index, fault # "index"),
                                 !.prev = index]
    /\ index' = SubSeq(index, Min(StatsSampleLimit, Len(index)) + 1, Len(index))
    /\ UNCHANGED << db, built, threads, rag_engine, instances, lastRowId >>

\* the statistics request
Stats(fault) ==
    /\ last.op = "none"
    /\ last' = [NoRequest EXCEPT !.op = "stats", !.fault = fault, !.ok = fault # "index",
                                 !.stats = GetCollectionStats(index, fault # "index"),
                                 !.prev = index]
    /\ UNCHANGED << db, index, built, threads, rag_engine, instances, lastRowId >>

\* the result is handed to the caller (the route serialises it); requests
\* are served one after the other
Respond ==
    /\ last.op # "none"
    /\ last' = NoRequest
    /\ UNCHANGED << db, index, built, threads, rag_engine, instances, lastRowId >>

Next ==
    \/ Respond
    \/ \E tx \in TxInputs : SaveTransaction(tx)
    \/ \E tid \in TxIds, tx \in TxInputs, fault \in Faults, dupRaises \in BOOLEAN :
          AddTransaction(tid, tx, fault, dupRaises)
    \/ \E q \in QueryValues, k \in Ks, fault \in Faults : FindSimilar(q, k, fault)
    \/ \E tid \in TxIds, k \in Ks, fault \in Faults : ContextFor(tid, k, fault)
    \/ \E fault \in { "none", "index" } : Stats(fault)

Spec == Init /\ [][Next]_vars

\* ------------------------------------------- the description builder alone
BuildVendors == { "", "Walmart" }
BuildCategories == { "", "groceries" }
BuildDates == { "", "2024-01-15" }
BuildAmounts == { Num(0), Num(15615), NoneVal }
BuildItems ==
    { Item("Milk", Num(3990)), Item("Olive Oil", NoneVal),
      Item("Tea", StrVal), NoNameItem(Num(1000)) }

RECURSIVE SeqsUpTo(_, _)
SeqsUpTo(S, n) ==
    IF n = 0 THEN { << >> }
    ELSE LET shorter == SeqsUpTo(S, n - 1)
         IN  shorter \cup { Append(q, x) : q \in shorter, x \in S }

BuildInputs ==
    { Tx(v, c, i, d, a) : v \in BuildVendors, c \in BuildCategories,
                          i \in SeqsUpTo(BuildItems, MaxItems),
                          d \in BuildDates, a \in BuildAmounts }

InitBuild ==
    /\ db = << >>
    /\ index = << >>
    /\ last = NoRequest
    /\ \E tx \in BuildInputs : built = [NoBuilt EXCEPT !.input = tx]
    /\ threads = NoThreads
    /\ rag_engine = 1
    /\ instances = 1
    /\ lastRowId = 0

\* one call of RAGEngine._create_transaction_text
Build ==
    /\ ~built.called
    /\ LET tx == built.input
           t == CreateTransactionText(tx.vendor, tx.category, tx.items, tx.date, tx.amount)
       IN  built' = [called |-> TRUE, input |-> tx, raised |-> t.raised, text |-> t.text]
    /\ UNCHANGED << db, index, last, threads, rag_engine, instances, lastRowId >>

NextBuild == Build

SpecBuild == InitBuild /\ [][NextBuild]_vars

\* ------------------------------ the description builder on long item lists
\* the item appended at position n, with or without a name; its price tells
\* the position
ItemAt(n, named) ==
    IF named THEN Item("item", Num(1000 * n)) ELSE NoNameItem(Num(1000 * n))

InitItems ==
    /\ db = << >>
    /\ index = << >>
    /\ last = NoRequest
    /\ built = [NoBuilt EXCEPT
                  !.input = Tx("Walmart", "groceries", << >>, "2024-01-15", Num(15610))]
    /\ threads = NoThreads
    /\ rag_engine = 1
    /\ instances = 1
    /\ lastRowId = 0

\* the caller's items list gets one more item
GrowItems(named) ==
    /\ ~built.called
    /\ Len(built.input.items) < MaxListLen
    /\ built' = [built EXCEPT
                   !.input.items = Append(@, ItemAt(Len(@) + 1, named))]
    /\ UNCHANGED << db, index, last, threads, rag_engine, instances, lastRowId >>

NextItems ==
    \/ \E named \in BOOLEAN : GrowItems(named)
    \/ Build

SpecItems == InitItems /\ [][NextItems]_vars

\* ------------------------------------------------------ ContextSummarizer
\* seq.count(x)
Count(seq, x) == Cardinality({ i \in 1 .. Len(seq) : seq[i] = x })

\* max(set(seq), key=seq.count): an element of the highest count; which one
\* among several depends on the iteration order of the set
Modes(seq) ==
    { x \in { seq[i] : i \in 1 .. Len(seq) } :
        \A j \in 1 .. Len(seq) : Count(seq, seq[j]) <= Count(seq, x) }

\* [t['vendor'] for t in similar_transactions if t['vendor']]
VendorsOf(ns) ==
    LET keep == SelectSeq(ns, LAMBDA t : t.vendor # "")
    IN  [i \in 1 .. Len(keep) |-> keep[i].vendor]

\* [t['category'] for t in similar_transactions if t['category']]
CategoriesOf(ns) ==
    LET keep == SelectSeq(ns, LAMBDA t : t.category # "")
    IN  [i \in 1 .. Len(keep) |-> keep[i].category]

\* [t['amount'] for t in similar_transactions if t['amount']]
AmountsOf(ns) ==
    LET keep == SelectSeq(ns, LAMBDA t : Truthy(t.amount))
    IN  [i \in 1 .. Len(keep) |-> keep[i].amount.v]

RECURSIVE SumSeq(_)
SumSeq(seq) == IF seq = << >> THEN 0 ELSE Head(seq) + SumSeq(Tail(seq))

VendorClause(v, n) == [clause |-> "vendor", name |-> v, n |-> n]
CategoryClause(c) == [clause |-> "category", name |-> c, n |-> 0]
\* f"{avg_amount:.2f}", in hundredths
AmountClause(amounts) ==
    [clause |-> "amount", name |-> "", n |-> RoundDiv(SumSeq(amounts), 10 * Len(amounts))]

\* variant: the category clause is appended before the vendor clause
SummaryParts_CategoryFirst(vendors, v, categories, c, amounts) ==
    (IF categories # << >> THEN << CategoryClause(c) >> ELSE << >>)
    \o (IF vendors # << >> /\ Count(vendors, v) > 1
        THEN << VendorClause(v, Count(vendors, v)) >> ELSE << >>)
    \o (IF amounts # << >> THEN << AmountClause(amounts) >> ELSE << >>)

\* summary_parts, for the most common vendor v and category c
SummaryParts(vendors, v, categories, c, amounts) ==
    (IF vendors # << >> /\ Count(vendors, v) > 1
     THEN << VendorClause(v, Count(vendors, v)) >> ELSE << >>)
    \o (IF categories # << >> THEN << CategoryClause(c) >> ELSE << >>)
    \o (IF amounts # << >> THEN << AmountClause(amounts) >> ELSE << >>)

\* ". ".join(summary_parts) if summary_parts else the fixed sentence
JoinSummary(parts) ==
    IF parts = << >>
    THEN [text |-> "Similar transaction patterns found.", parts |-> << >>]
    ELSE [text |-> "", parts |-> parts]

\* RAGEngine._generate_context_summary: the summaries a call may return
ContextSummaries(ns) ==
    IF ns = << >>
    THEN { [text |-> "No similar transactions found.", parts |-> << >>] }
    ELSE LET vendors == VendorsOf(ns)
             categories == CategoriesOf(ns)
             amounts == AmountsOf(ns)
         IN  { JoinSummary(SummaryParts(vendors, v, categories, c, amounts)) :
                 v \in (IF vendors = << >> THEN { "" } ELSE Modes(vendors)),
                 c \in (IF categories = << >> THEN { "" } ELSE Modes(categories)) }

Neighbour(v, c, a) == [vendor |-> v, category |-> c, amount |-> a]

NeighbourKinds ==
    { Neighbour("Walmart", "groceries", Num(15610)),
      Neighbour("Costco", "groceries", Num(34520)),
      Neighbour("Costco", "other", Num(0)),
      Neighbour("", "", Num(0)),
      Neighbour("", "", NoneVal),
      Neighbour("Walmart", "", Num(45000)) }

\* one call of RAGEngine._generate_context_summary
Summarize(ns) ==
    /\ last.op = "none"
    /\ \E s \in ContextSummaries(ns) :
          last' = [NoRequest EXCEPT !.op = "summarize", !.out = ns, !.summary = s]
    /\ UNCHANGED << db, index, built, threads, rag_engine, instances, lastRowId >>

NextSummary ==
    \/ Respond
    \/ \E ns \in SeqsUpTo(NeighbourKinds, MaxNeighbours) : Summarize(ns)

SpecSummary == Init /\ [][NextSummary]_vars

\* ------------------------------------- collections around the sample limit
\* a collection one record short of the sample limit, left by as many adds
FilledIndex ==
    [i \in 1 .. StatsSampleLimit - 1 |->
        LET tx == Tx("Walmart", "groceries", << Item("Milk", Num(3990)) >>,
                     "2024-01-15", Num(15610))
            t == CreateTransactionText(tx.vendor, tx.category, tx.items, tx.date, tx.amount)
        IN  [id |-> RecordId(i), embedding |-> Embed(t.text),
             document |-> t.text, metadata |-> Metadata(i, tx)]]

\* the ids of the records added on top
ExtraIds == StatsSampleLimit .. StatsSampleLimit + MaxExtra - 1

InitBulk ==
    /\ db = << >>
    /\ index \in { << >>, FilledIndex }
    /\ last = NoRequest
    /\ built = NoBuilt
    /\ threads = NoThreads
    /\ rag_engine = 1
    /\ instances = 1
    /\ lastRowId = 0

\* the rows of the transactions whose records fill the collection
FilledRows ==
    [i \in 1 .. StatsSampleLimit - 1 |->
        [id |-> i, vendor |-> "Walmart", date |-> "2024-01-15", amount |-> Num(15610),
         category |-> "groceries", items_json |-> JsonDumps(<< Item("Milk", Num(3990)) >>)]]

\* k around the clamp
LargeKs == { 1, MaxResults - 1, MaxResults }

\* the filled collection and its rows, after as many uploads
InitLarge ==
    /\ db = FilledRows
    /\ index = FilledIndex
    /\ last = NoRequest
    /\ built = NoBuilt
    /\ threads = NoThreads
    /\ rag_engine = 1
    /\ instances = 1
    /\ lastRowId = StatsSampleLimit - 1

\* records are added on top, under the ids the table hands out one after
\* the other, and the context of the first transaction is asked
NextLarge ==
    \/ Respond
    \/ \E tx \in TxInputs, fault \in Faults :
          /\ Len(index) + 1 \in ExtraIds
          /\ AddTransaction(Len(index) + 1, tx, fault, FALSE)
    \/ \E k \in LargeKs, fault \in { "none", "embed" } : ContextFor(1, k, fault)

SpecLarge == InitLarge /\ [][NextLarge]_vars

NextBulk ==
    \/ Respond
    \/ \E tid \in ExtraIds, tx \in TxInputs, fault \in Faults, dupRaises \in BOOLEAN :
          AddTransaction(tid, tx, fault, dupRaises)
    \/ \E fault \in { "none", "index" } : Stats(fault)

SpecBulk == InitBulk /\ [][NextBulk]_vars

\* ------------------------------------------- requests served concurrently
\* app.run serves each request on a thread of its own; the threads share the
\* one engine instance and the handlers take no lock.  A thread is "idle",
\* at the "call" of an index operation, or "inside" it.
ConcIds == 1 .. MaxConcIds

ConcTx == Tx("Walmart", "groceries", << Item("Milk", Num(3990)) >>, "2024-01-15", Num(15610))

\* add_transaction_to_vector_db up to collection.add: text, embedding, metadata
BeginAdd(t, tid) ==
    /\ threads[t].pc = "idle"
    /\ threads' = [threads EXCEPT ![t] = [pc |-> "call", op |-> "add", tid |-> tid, n |-> 0]]
    /\ UNCHANGED << db, index, last, built, rag_engine, instances, lastRowId >>

\* get_similar_transactions up to collection.query: the query is embedded
BeginFind(t) ==
    /\ threads[t].pc = "idle"
    /\ threads' = [threads EXCEPT ![t] = [pc |-> "call", op |-> "query", tid |-> 0, n |-> 0]]
    /\ UNCHANGED << db, index, last, built, rag_engine, instances, lastRowId >>

\* get_collection_stats up to collection.count
BeginStats(t) ==
    /\ threads[t].pc = "idle"
    /\ threads' = [threads EXCEPT ![t] = [pc |-> "call", op |-> "count", tid |-> 0, n |-> 0]]
    /\ UNCHANGED << db, index, last, built, rag_engine, instances, lastRowId >>

\* the thread enters its index operation: nothing in the handlers makes it wait
EnterIndex(t) ==
    /\ threads[t].pc = "call"
    /\ threads' = [threads EXCEPT ![t].pc = "inside"]
    /\ UNCHANGED << db, index, last, built, rag_engine, instances, lastRowId >>

\* the index operation returns and the handler runs to its next index
\* operation or to its end
LeaveIndex(t, dupRaises) ==
    LET th == threads[t]
        tx == ConcTx
        text == CreateTransactionText(tx.vendor, tx.category, tx.items, tx.date, tx.amount)
        rec == [id |-> RecordId(th.tid), embedding |-> Embed(text.text),
                document |-> text.text, metadata |-> Metadata(th.tid, tx)]
    IN  /\ th.pc = "inside"
        /\ index' = IF th.op = "add" THEN CollectionAdd(index, rec, TRUE, dupRaises).idx
                     ELSE index
        /\ threads' = [threads EXCEPT ![t] =
                          IF th.op = "count" /\ Len(index) > 0
                          THEN [pc |-> "call", op |-> "get", tid |-> 0, n |-> Len(index)]
                          ELSE IdleThread]
        /\ UNCHANGED << db, last, built, rag_engine, instances, lastRowId >>

NextConc ==
    \/ \E t \in Threads, tid \in ConcIds : BeginAdd(t, tid)
    \/ \E t \in Threads : BeginFind(t)
    \/ \E t \in Threads : BeginStats(t)
    \/ \E t \in Threads : EnterIndex(t)
    \/ \E t \in Threads, dupRaises \in BOOLEAN : LeaveIndex(t, dupRaises)

SpecConc == Init /\ [][NextConc]_vars

\* --------------------------------- the engine without the relational store
\* records are added and queries asked; no rows, no context requests
NextIndex ==
    \/ Respond
    \/ \E tid \in TxIds, tx \in TxInputs, fault \in Faults, dupRaises \in BOOLEAN :
          AddTransaction(tid, tx, fault, dupRaises)
    \/ \E q \in QueryValues, k \in Ks, fault \in Faults : FindSimilar(q, k, fault)

SpecIndex == Init /\ [][NextIndex]_vars

\* ------------------------------------------------ the application routes
\* what the extractor hands to the upload route, after its validation: the
\* category is one of the valid ones; vendor, date and total may be null
\* ("" stands for a null or empty string) and items may be anything
Extracted(v, c, i, d, t) == [vendor |-> v, category |-> c, items |-> i, date |-> d, total |-> t]

ExtractedInputs ==
    { Extracted("Walmart", "groceries", PyList(<< Item("Milk", Num(3990)) >>),
                "2024-01-15", Num(15610)),
      Extracted("", "other", PyNone, "", Num(0)),
      Extracted("Costco", "groceries", PyList(<< >>), "2024-01-20", NoneVal),
      Extracted("Walmart", "groceries", PyStr(<< Item("Milk", Num(3990)) >>, TRUE, 34),
                "2024-01-15", Num(15610)),
      Extracted("Costco", "other", PyStr(<< >>, FALSE, 4), "2024-01-20", Num(15610)) }

\* log lines
LogNotInitialised == "rag_engine WARNING RAG engine not initialized, attempting to initialize..."
LogInitFailed == "rag_engine ERROR Failed to initialize global RAG engine"
LogInitialised == "rag_engine INFO Global RAG engine initialized"
LogEngineAdded == "rag_engine INFO Added transaction to vector database"
LogEngineAddError == "rag_engine ERROR Error adding transaction to vector database"
LogAppAdded == "app INFO Added transaction to vector database"
LogAppAddFailed == "app WARNING Failed to add transaction to vector database"

\* RAGEngine.add_transaction_to_vector_db as the upload route calls it, with
\* the items value as extracted
EngineAdd(idx, tid, ex, fault) ==
    LET tx == Tx(ex.vendor, ex.category, ListOf(ex.items), ex.date, ex.total)
        t == CreateTransactionText(tx.vendor, tx.category, tx.items, tx.date, tx.amount)
        rec == [id |-> RecordId(tid), embedding |-> Embed(t.text), document |-> t.text,
                metadata |-> [Metadata(tid, tx) EXCEPT !.item_count = ex.items.len]]
        w == CollectionAdd(idx, rec, fault # "index", FALSE)
        fails == t.raised \/ fault = "embed" \/ w.raised
    IN  [idx |-> IF t.raised \/ fault = "embed" THEN idx ELSE w.idx,
         ok |-> ~fails,
         embedCalls |-> IF t.raised THEN 0 ELSE 1,
         log |-> IF fails THEN << LogEngineAddError >> ELSE << LogEngineAdded >>]

\* the module-level add_transaction_to_vector_db: lazy initialisation, then
\* the engine's add; initOk is the outcome of RAGEngine() when it is tried
ModuleAdd(idx, tid, ex, fault, initOk) ==
    LET tried == rag_engine = 0
        engine == IF ~tried THEN rag_engine ELSE IF initOk THEN instances + 1 ELSE 0
        r == EngineAdd(idx, tid, ex, fault)
        initLog == IF ~tried THEN << >>
                   ELSE IF initOk THEN << LogNotInitialised, LogInitialised >>
                   ELSE << LogNotInitialised, LogInitFailed >>
    IN  IF engine = 0
        THEN [idx |-> idx, ok |-> FALSE, embedCalls |-> 0, log |-> initLog,
              tried |-> tried, engine |-> engine]
        ELSE [idx |-> r.idx, ok |-> r.ok, embedCalls |-> r.embedCalls,
              log |-> initLog \o r.log, tried |-> tried, engine |-> engine]

\* the row the upload route hands to database.save_transaction
UploadRow(tid, ex) ==
    [id |-> tid, vendor |-> ex.vendor, date |-> ex.date, amount |-> ex.total,
     category |-> ex.category, items_json |-> ItemsColumn(ex.items)]

\* variant: the row is taken back when the vector add fails
Upload_RollbackOnAddFailure(ex, fault, initOk) ==
    LET tid == lastRowId + 1
        a == ModuleAdd(index, tid, ex, fault, initOk)
    IN  /\ last.op = "none"
        /\ lastRowId < MaxRows
        /\ lastRowId' = tid
        /\ db' = IF a.ok THEN Append(db, UploadRow(tid, ex)) ELSE db
        /\ index' = a.idx
        /\ rag_engine' = a.engine
        /\ instances' = IF a.tried /\ a.engine # 0 THEN instances + 1 ELSE instances
        /\ last' = [NoRequest EXCEPT
                        !.op = "upload", !.tid = tid, !.fault = fault,
                        !.input = Tx(ex.vendor, ex.category, ListOf(ex.items), ex.date, ex.total),
                        !.ok = a.ok, !.addResult = IF a.ok THEN "true" ELSE "false",
                        !.initTried = a.tried, !.embedCalls = a.embedCalls,
                        !.found = TRUE,
                        !.log = a.log \o << LogAppAdded >>,
                        !.response = [success |-> TRUE, transaction_id |-> tid],
                        !.prev = index]
        /\ UNCHANGED << built, threads >>

\* the upload route from the extracted data on: the row is saved, the
\* vector add is called with the new id and its result is not looked at
\* (the call cannot raise, so the except branch is never taken), then the
\* response is built; found records that the row was there when the add ran
Upload(ex, fault, initOk) ==
    LET tid == lastRowId + 1
        a == ModuleAdd(index, tid, ex, fault, initOk)
    IN  /\ last.op = "none"
        /\ lastRowId < MaxRows
        /\ lastRowId' = tid
        /\ db' = Append(db, UploadRow(tid, ex))
        /\ index' = a.idx
        /\ rag_engine' = a.engine
        /\ instances' = IF a.tried /\ a.engine # 0 THEN instances + 1 ELSE instances
        /\ last' = [NoRequest EXCEPT
                        !.op = "upload", !.tid = tid, !.fault = fault,
                        !.input = Tx(ex.vendor, ex.category, ListOf(ex.items), ex.date, ex.total),
                        !.ok = a.ok, !.addResult = IF a.ok THEN "true" ELSE "false",
                        !.initTried = a.tried, !.embedCalls = a.embedCalls,
                        !.found = TRUE,
                        !.log = a.log \o << LogAppAdded >>,
                        !.response = [success |-> TRUE, transaction_id |-> tid],
                        !.prev = index]
        /\ UNCHANGED << built, threads >>

\* what a module-level read function does while the global is None
NotInitialised(op, tid, q, k, fault) ==
    /\ last.op = "none"
    /\ last' = [NoRequest EXCEPT !.op = op, !.tid = tid, !.text = q, !.k = k,
                                 !.fault = fault, !.prev = index]
    /\ UNCHANGED << db, index, built, threads, rag_engine, instances, lastRowId >>

\* variant: the search initialises the engine when it finds none
ModuleFind_LazyInit(q, k, fault) ==
    IF rag_engine = 0
    THEN /\ last.op = "none"
         /\ last' = [NoRequest EXCEPT !.op = "find", !.text = q, !.k = k,
                                      !.fault = fault, !.initTried = TRUE, !.prev = index]
         /\ rag_engine' = instances + 1
         /\ instances' = instances + 1
         /\ UNCHANGED << db, index, built, threads, lastRowId >>
    ELSE FindSimilar(q, k, fault)

\* the module-level get_similar_transactions
ModuleFind(q, k, fault) ==
    IF rag_engine = 0 THEN NotInitialised("find", 0, q, k, fault)
    ELSE FindSimilar(q, k, fault)

\* the module-level retrieve_context_for_transaction
ModuleContext(tid, k, fault) ==
    IF rag_engine = 0 THEN NotInitialised("context", tid, QueryText(<< >>), k, fault)
    ELSE ContextFor(tid, k, fault)

\* the module-level get_collection_stats
ModuleStats(fault) ==
    IF rag_engine = 0 THEN NotInitialised("stats", 0, QueryText(<< >>), 0, fault)
    ELSE Stats(fault)

\* database.update_transaction: every column of the row is overwritten
UpdateTransaction(tid, ex) ==
    /\ last.op = "none"
    /\ db' = [i \in 1 .. Len(db) |-> IF db[i].id = tid THEN UploadRow(tid, ex) ELSE db[i]]
    /\ last' = [NoRequest EXCEPT !.op = "update", !.tid = tid,
                                 !.ok = \E i \in 1 .. Len(db) : db[i].id = tid,
                                 !.prev = index]
    /\ UNCHANGED << index, built, threads, rag_engine, instances, lastRowId >>

\* database.delete_transaction: the row goes, nothing else is touched
DeleteTransaction(tid) ==
    /\ last.op = "none"
    /\ db' = SelectSeq(db, LAMBDA r : r.id # tid)
    /\ last' = [NoRequest EXCEPT !.op = "delete", !.tid = tid,
                                 !.ok = \E i \in 1 .. Len(db) : db[i].id = tid,
                                 !.prev = index]
    /\ UNCHANGED << index, built, threads, rag_engine, instances, lastRowId >>

\* the application starts with an empty table; the engine was constructed
\* at import, or that construction failed and the global is None
InitApp ==
    /\ db = << >>
    /\ index = << >>
    /\ last = NoRequest
    /\ built = NoBuilt
    /\ threads = NoThreads
    /\ rag_engine \in { 0, 1 }
    /\ instances = rag_engine
    /\ lastRowId = 0

RowIds == 1 .. MaxRows

NextApp ==
    \/ Respond
    \/ \E ex \in ExtractedInputs, fault \in Faults, initOk \in BOOLEAN :
          Upload(ex, fault, initOk)
    \/ \E q \in QueryValues, k \in Ks, fault \in Faults : ModuleFind(q, k, fault)
    \/ \E tid \in RowIds, k \in Ks, fault \in Faults : ModuleContext(tid, k, fault)
    \/ \E fault \in { "none", "index" } : ModuleStats(fault)
    \/ \E tid \in RowIds, ex \in ExtractedInputs : UpdateTransaction(tid, ex)
    \/ \E tid \in RowIds : DeleteTransaction(tid)

SpecApp == InitApp /\ [][NextApp]_vars

\* ------------------------------------- lazy initialisation, concurrently
\* Module-level add_transaction_to_vector_db calls on threads of their own
\* while the global is None.  A thread tests the global, constructs an
\* engine, binds the global to it, then reads the global again for the call;
\* n is the instance the thread constructed or, after the call, wrote to.
\* `if not rag_engine`
TestGlobal(t, tid) ==
    /\ threads[t].pc = "idle"
    /\ threads' = [threads EXCEPT ![t] =
                      [pc |-> IF rag_engine = 0 THEN "construct" ELSE "use",
                       op |-> "add", tid |-> tid, n |-> 0]]
    /\ UNCHANGED << db, index, last, built, rag_engine, instances, lastRowId >>

\* RAGEngine() inside initialize_rag_engine: it returns a new instance, or
\* raises and the call returns False
Construct(t, initOk) ==
    /\ threads[t].pc = "construct"
    /\ instances' = IF initOk THEN instances + 1 ELSE instances
    /\ threads' = [threads EXCEPT ![t] =
                      IF initOk THEN [@ EXCEPT !.pc = "bind", !.n = instances + 1]
                      ELSE IdleThread]
    /\ UNCHANGED << db, index, last, built, rag_engine, lastRowId >>

\* rag_engine = <the new instance>
BindGlobal(t) ==
    /\ threads[t].pc = "bind"
    /\ rag_engine' = threads[t].n
    /\ threads' = [threads EXCEPT ![t].pc = "use"]
    /\ UNCHANGED << db, index, last, built, instances, lastRowId >>

\* return rag_engine.add_transaction_to_vector_db(...): the global is read
\* again and the add runs on the instance it is bound to now
UseGlobal(t, dupRaises) ==
    LET th == threads[t]
        tx == ConcTx
        text == CreateTransactionText(tx.vendor, tx.category, tx.items, tx.date, tx.amount)
        rec == [id |-> RecordId(th.tid), embedding |-> Embed(text.text),
                document |-> text.text, metadata |-> Metadata(th.tid, tx)]
    IN  /\ th.pc = "use"
        /\ index' = CollectionAdd(index, rec, TRUE, dupRaises).idx
        /\ threads' = [threads EXCEPT ![t] =
                          [pc |-> "idle", op |-> "added", tid |-> th.tid, n |-> rag_engine]]
        /\ UNCHANGED << db, last, built, rag_engine, instances, lastRowId >>

\* the construction at import failed: the global is None
InitLazy ==
    /\ db = << >>
    /\ index = << >>
    /\ last = NoRequest
    /\ built = NoBuilt
    /\ threads = NoThreads
    /\ rag_engine = 0
    /\ instances = 0
    /\ lastRowId = 0

NextLazy ==
    \/ \E t \in Threads, tid \in ConcIds : TestGlobal(t, tid)
    \/ \E t \in Threads, initOk \in BOOLEAN : Construct(t, initOk)
    \/ \E t \in Threads : BindGlobal(t)
    \/ \E t \in Threads, dupRaises \in BOOLEAN : UseGlobal(t, dupRaises)

SpecLazy == InitLazy /\ [][NextLazy]_vars

\* ------------------------------------------------------------ properties
DbIds == { db[i].id : i \in 1 .. Len(db) }

RecordsOf(idx, tid) == { i \in 1 .. Len(idx) : idx[i].id = RecordId(tid) }

LastBuild ==
    CreateTransactionText(last.input.vendor, last.input.category, last.input.items,
                          last.input.date, last.input.amount)

\* C1: a second addTransaction under an id the index already holds leaves
\* exactly one record under that id, carrying the metadata and the document
\* of this second call, and the count is what it was after the first call.
C1_UpsertIdempotence ==
    ( /\ last.op = "add"
      /\ RecordsOf(last.prev, last.tid) # { }
      /\ last.fault = "none"
      /\ ~LastBuild.raised )
    => /\ Cardinality(RecordsOf(index, last.tid)) = 1
       /\ \A i \in RecordsOf(index, last.tid) :
            /\ index[i].metadata = Metadata(last.tid, last.input)
            /\ index[i].document = LastBuild.text
       /\ Len(index) = Len(last.prev)

\* the record contextFor's own transaction has in the index is the nearest
\* neighbour of the query, at distance 0
SelfIsNearest ==
    /\ index # << >>
    /\ Ranked(index, Embed(last.text))[1].rec.metadata.transaction_id = last.tid
    /\ Ranked(index, Embed(last.text))[1].distance = 0

\* C2: the similar transactions contextFor(id, k) returns for an id the
\* relational store knows never contain an entry whose transaction id is id.
C2_SelfExclusion ==
    (last.op = "context" /\ last.tid \in DbIds)
    => \A i \in 1 .. Len(last.out) : last.out[i].transaction_id # last.tid

C2_Witness ==
    /\ last.op = "context"
    /\ last.found
    /\ last.fault = "none"
    /\ last.k >= 1
    /\ SelfIsNearest
    /\ Len(last.out) >= 1

\* C3 as stated: findSimilar(q, k) returns at most min(k, 100, count())
\* results for every integer k, and the index is never asked for more than
\* 100 neighbours.
C3_KBoundingAsStated ==
    last.op = "find"
    => /\ Len(last.out) <= Min(Min(last.k, MaxResults), Len(index))
       /\ \A i \in 1 .. Len(last.nRequested) : last.nRequested[i] <= MaxResults

\* C3: findSimilar(q, k) returns at most max(0, min(k, 100, count()))
\* results (none when k <= 0), and the index is never asked for more than
\* 100 neighbours whatever k is.
C3_KBounding ==
    last.op = "find"
    => /\ Len(last.out) <= Max(0, Min(Min(last.k, MaxResults), Len(index)))
       /\ \A i \in 1 .. Len(last.nRequested) : last.nRequested[i] <= MaxResults

C3_Witness ==
    /\ last.op = "find"
    /\ last.k > MaxResults
    /\ last.nRequested = << MaxResults >>
    /\ Len(index) >= 2
    /\ Len(last.out) = Len(index)

\* C4: findSimilar(q, 0) with a non-blank q returns an empty list and makes
\* no call to the embedding model.
C4_ZeroKNoEmbedding ==
    (last.op = "find" /\ last.k = 0 /\ ~IsBlank(last.text))
    => (last.out = << >> /\ last.embedCalls = 0)

\* C5: for a query that is empty or only whitespace, whatever k, findSimilar
\* returns an empty list, embeds nothing and does not query the index.
C5_BlankQuery ==
    ( /\ last.op = "find"
      /\ \A i \in 1 .. Len(last.text.s) : last.text.s[i] = " " )
    => (last.out = << >> /\ last.embedCalls = 0 /\ last.nRequested = << >>)

C5_Witness ==
    /\ last.op = "find"
    /\ last.text.s = << " ", " ", " " >>
    /\ last.k >= 1
    /\ last.fault = "none"
    /\ index # << >>

\* C6: an addTransaction that fails while building the description, while
\* embedding or while writing to the index returns false and leaves the
\* index exactly as it was before the call.
C6_FailedAddNoWrite ==
    (last.op = "add" /\ (LastBuild.raised \/ last.fault # "none"))
    => (~last.ok /\ index = last.prev)

C6_Witness ==
    /\ last.op = "add"
    /\ last.fault = "embed"
    /\ ~LastBuild.raised
    /\ RecordsOf(last.prev, last.tid) = { }
    /\ last.prev # << >>
    /\ ~last.ok

\* C7: the similarity scores of a result list of findSimilar never increase
\* from one entry to the next.
C7_ScoreOrdering ==
    last.op = "find"
    => \A i \in 1 .. Len(last.out) - 1 :
          last.out[i].similarity_score >= last.out[i + 1].similarity_score

C7_Witness ==
    /\ last.op = "find"
    /\ Len(last.out) >= 2
    /\ last.out[1].similarity_score > last.out[2].similarity_score
    /\ last.prev[1].metadata.transaction_id = last.out[2].transaction_id

\* C8: contextFor(id, k) for an id the relational store does not hold
\* returns the empty result without raising, embeds nothing and does not
\* query the index.
C8_UnknownId ==
    (last.op = "context" /\ last.tid \notin DbIds)
    => /\ ~last.raised
       /\ ~last.found
       /\ last.out = << >>
       /\ last.embedCalls = 0
       /\ last.nRequested = << >>

C8_Witness ==
    /\ last.op = "context"
    /\ last.tid \notin DbIds
    /\ last.k >= 1
    /\ last.fault = "none"
    /\ index # << >>
    /\ db # << >>

\* C9 as stated: for k >= 0, contextFor(id, k) queries the index for k + 1
\* neighbours and returns at most k similar transactions.
C9_KPlusOneAsStated ==
    (last.op = "context" /\ last.k >= 0 /\ last.found /\ last.fault = "none")
    => (last.nRequested = << last.k + 1 >> /\ Len(last.out) <= last.k)

\* C9: for k >= 0, contextFor(id, k) asks findSimilar for k + 1 results, so
\* the index is queried for min(k + 1, 100) neighbours (and not at all when
\* the id is unknown or a step fails); entries of id are removed, the rest
\* is truncated, and at most k similar transactions are returned.
C9_KPlusOne ==
    (last.op = "context" /\ last.k >= 0)
    => /\ Len(last.out) <= last.k
       /\ \A i \in 1 .. Len(last.out) : last.out[i].transaction_id # last.tid
       /\ \A i \in 1 .. Len(last.nRequested) :
             last.nRequested[i] = Min(last.k + 1, MaxResults)
       /\ (last.found /\ last.fault = "none")
             => last.nRequested = << Min(last.k + 1, MaxResults) >>

\* what the index returned for the query of the last contextFor
LastNeighbours ==
    GetSimilarTransactions(last.prev, last.text, last.k + 1, last.fault).out

C9_Witness ==
    /\ last.op = "context"
    /\ last.found
    /\ last.fault = "none"
    /\ last.k >= 1
    /\ Len(ContextTransactions(LastNeighbours, last.tid, last.k + 1)) > last.k
    /\ Len(last.out) = last.k

\* C10: the description builder returns a string for every combination of
\* present and absent inputs and never raises; an absent vendor, date and
\* category appear as "unknown store", "unknown date" and "general".
C10_BuildTotal ==
    built.called
    => /\ ~built.raised
       /\ built.text.vendor = OrDefault(built.input.vendor, "unknown store")
       /\ built.text.date = OrDefault(built.input.date, "unknown date")
       /\ built.text.category = OrDefault(built.input.category, "general")


\* the items of the built record that carry a name, in order
NamedInputItems == SelectSeq(built.input.items, LAMBDA it : it.hasName)

\* the item clause lists the first 10 named items, each with its price
ItemClauseLists ==
    /\ Len(built.text.items) = Min(Len(NamedInputItems), MaxItemsShown)
    /\ \A j \in 1 .. Len(built.text.items) :
          /\ built.text.items[j].name = NamedInputItems[j].name
          /\ 10 * built.text.items[j].price = NamedInputItems[j].price.v

\* C11 as stated: nameless items are skipped, at most the first 10 items are
\* listed, the suffix "and n-10 more items" is there exactly when more than
\* 10 items exist, and an empty list gives no item clause.
C11_ItemClauseAsStated ==
    built.called
    => /\ ~built.raised
       /\ ItemClauseLists
       /\ (built.text.more > 0) <=> (Len(built.input.items) > MaxItemsShown)
       /\ built.text.more > 0 => built.text.more = Len(built.input.items) - MaxItemsShown
       /\ built.input.items = << >> => (built.text.items = << >> /\ built.text.more = 0)

\* C11: nameless items are skipped, at most the first 10 named items are
\* listed, the suffix "and n-10 more items" (n the length of the list) is
\* there exactly when more than 10 items exist and at least one of them has
\* a name, and a list without a named item gives no item clause.
C11_ItemClause ==
    built.called
    => /\ ~built.raised
       /\ ItemClauseLists
       /\ (built.text.more > 0)
             <=> (Len(built.input.items) > MaxItemsShown /\ NamedInputItems # << >>)
       /\ built.text.more > 0 => built.text.more = Len(built.input.items) - MaxItemsShown
       /\ NamedInputItems = << >> => (built.text.items = << >> /\ built.text.more = 0)

C11_Witness ==
    /\ built.called
    /\ Len(built.input.items) = MaxItemsShown + 2
    /\ Len(NamedInputItems) = MaxItemsShown + 1
    /\ ~built.input.items[1].hasName
    /\ Len(built.text.items) = MaxItemsShown
    /\ built.text.more = 2


\* the last request was an add that stored a new record
LastAddStored ==
    /\ last.op = "add"
    /\ last.ok
    /\ RecordsOf(last.prev, last.tid) = { }

\* C12: no record of the index has an empty (null) metadata field, and a
\* record just stored has "unknown", "other", "unknown", 0.0 and 0 where the
\* vendor, category, date, amount and items of the source were absent.
C12_MetadataDefaults ==
    /\ \A i \in 1 .. Len(index) :
          /\ index[i].metadata.vendor # ""
          /\ index[i].metadata.category # ""
          /\ index[i].metadata.date # ""
          /\ index[i].metadata.amount \in Int
          /\ index[i].metadata.item_count \in Nat
    /\ LastAddStored
       => \A i \in RecordsOf(index, last.tid) :
            /\ last.input.vendor = "" => index[i].metadata.vendor = "unknown"
            /\ last.input.vendor # "" => index[i].metadata.vendor = last.input.vendor
            /\ last.input.category = "" => index[i].metadata.category = "other"
            /\ last.input.category # "" => index[i].metadata.category = last.input.category
            /\ last.input.date = "" => index[i].metadata.date = "unknown"
            /\ last.input.date # "" => index[i].metadata.date = last.input.date
            /\ last.input.amount.t = "none" => index[i].metadata.amount = 0
            /\ last.input.amount.t = "num" => index[i].metadata.amount = last.input.amount.v
            /\ last.input.items = << >> => index[i].metadata.item_count = 0

C12_Witness ==
    /\ LastAddStored
    /\ last.input.vendor = ""
    /\ last.input.category = ""
    /\ last.input.date = ""
    /\ last.input.items = << >>
    /\ RecordsOf(index, last.tid) # { }
    /\ Len(index) >= 2


\* C13: each record's id is the fixed prefix plus its own transaction id,
\* no two records share a transaction id and no two records share an id.
C13_IdBijection ==
    /\ \A i \in 1 .. Len(index) :
          index[i].id = << "transaction_", index[i].metadata.transaction_id >>
    /\ \A i, j \in 1 .. Len(index) :
          i # j => /\ index[i].metadata.transaction_id # index[j].metadata.transaction_id
                   /\ index[i].id # index[j].id

C13_Witness ==
    /\ last.op = "add"
    /\ last.fault = "none"
    /\ ~LastBuild.raised
    /\ RecordsOf(last.prev, last.tid) # { }
    /\ Len(index) >= 2


\* the kinds of the clauses of the last summary, in the order they appear
ClauseKinds == [i \in 1 .. Len(last.summary.parts) |-> last.summary.parts[i].clause]

ClauseOrder(kind) == CASE kind = "vendor" -> 1 [] kind = "category" -> 2 [] OTHER -> 3

HasClause(kind) == \E i \in 1 .. Len(ClauseKinds) : ClauseKinds[i] = kind

TheClause(kind) == last.summary.parts[CHOOSE i \in 1 .. Len(ClauseKinds) : ClauseKinds[i] = kind]

TopVendorCount ==
    LET vendors == VendorsOf(last.out)
    IN  IF vendors = << >> THEN 0
        ELSE Count(vendors, CHOOSE v \in Modes(vendors) : TRUE)

\* the vendor whose occurrences reach TopVendorCount first in neighbour order
FirstTopVendor ==
    LET vendors == VendorsOf(last.out)
        reached(i) == Count(SubSeq(vendors, 1, i), vendors[i]) = TopVendorCount
        first == CHOOSE i \in 1 .. Len(vendors) :
                    reached(i) /\ \A j \in 1 .. i - 1 : ~reached(j)
    IN  vendors[first]

\* C15: the vendor clause is there exactly when the most frequent non-empty
\* vendor occurs more than once; it states that count, and among vendors of
\* equal highest count it names the one that reaches the count first in
\* neighbour order.
C15_VendorClause ==
    last.op = "summarize"
    => /\ HasClause("vendor") <=> TopVendorCount > 1
       /\ HasClause("vendor")
          => /\ TheClause("vendor").n = TopVendorCount
             /\ TheClause("vendor").name = FirstTopVendor

\* the amounts of the neighbours that have a numeric amount, 0 included
NumericAmounts ==
    LET keep == SelectSeq(last.out, LAMBDA t : t.amount.t = "num")
    IN  [i \in 1 .. Len(keep) |-> keep[i].amount.v]

\* C16: the average-amount clause is there whenever a neighbour has a
\* numeric amount, 0 included, and shows the mean (2 decimals) of the
\* amounts of all neighbours that have one.
C16_AmountClause ==
    (last.op = "summarize" /\ NumericAmounts # << >>)
    => /\ HasClause("amount")
       /\ TheClause("amount").n = RoundDiv(SumSeq(NumericAmounts), 10 * Len(NumericAmounts))


\* C17: findSimilar never raises: for every query value, every integer k,
\* an embedding failure or an index failure it returns a list, and for
\* k <= 0 that list is empty.
C17_FindNeverRaises ==
    last.op = "find"
    => /\ ~last.raised
       /\ DOMAIN last.out = 1 .. Len(last.out)
       /\ last.fault # "none" => last.out = << >>
       /\ last.text.kind = "none" => last.out = << >>
       /\ last.k <= 0 => last.out = << >>

C17_Witness ==
    /\ last.op = "find"
    /\ last.fault = "index"
    /\ last.text.kind = "query"
    /\ ~IsBlank(last.text)
    /\ last.k >= 1
    /\ last.prev # << >>
    /\ last.out = << >>


\* the orders in which n records can have been added
Orders(n) == { p \in [1 .. n -> 1 .. n] : \A i, j \in 1 .. n : p[i] = p[j] => i = j }

\* what the last findSimilar returns when the same records were added in
\* the order p
OutInOrder(p) ==
    GetSimilarTransactions([i \in 1 .. Len(last.prev) |-> last.prev[p[i]]],
                           last.text, last.k, last.fault).out

\* no two records are at the same distance of the last query
NoEqualDistances ==
    \A i, j \in 1 .. Len(last.prev) :
        i # j => Distance(Embed(last.text), last.prev[i].embedding)
                 # Distance(Embed(last.text), last.prev[j].embedding)

\* C18 as stated: whatever the order in which the records were added,
\* findSimilar(q, k) returns the same ranked list, also when two records are
\* at equal distance of the query.
C18_InsertionOrderAsStated ==
    last.op = "find"
    => \A p \in Orders(Len(last.prev)) : OutInOrder(p) = last.out

\* C18: whatever the order in which the records were added, findSimilar(q, k)
\* returns the same sequence of similarity scores, and the same ranked list
\* when no two records are at equal distance of the query.
C18_InsertionOrder ==
    last.op = "find"
    => \A p \in Orders(Len(last.prev)) :
          /\ Len(OutInOrder(p)) = Len(last.out)
          /\ \A i \in 1 .. Len(last.out) :
                OutInOrder(p)[i].similarity_score = last.out[i].similarity_score
          /\ (last.out # << >> /\ NoEqualDistances) => OutInOrder(p) = last.out

C18_Witness ==
    /\ last.op = "find"
    /\ Len(last.out) >= 2
    /\ NoEqualDistances
    /\ last.out[Len(last.out)].transaction_id = last.prev[1].metadata.transaction_id


\* the categories stored in a collection
StoredCategories(idx) == { idx[i].metadata.category : i \in 1 .. Len(idx) }

\* C19: after n >= 1 successful adds under distinct ids to an empty index,
\* the statistics report total_transactions = n; for n at most 100 they report
\* unique_categories = the number of distinct stored categories, and for more
\* records the figures are those of 100 of the records.
C19_StatsSanity ==
    (last.op = "stats" /\ last.fault = "none")
    => LET n == Cardinality(IndexIds(index))
           sample == SubSeq(index, 1, Min(n, StatsSampleLimit))
       IN  /\ ~last.stats.error
           /\ last.stats.has_total
           /\ last.stats.total_transactions = n
           /\ n >= 1 => /\ last.stats.has_figures
                        /\ Len(sample) <= StatsSampleLimit
                        /\ last.stats.unique_categories
                             = Cardinality(StoredCategories(sample))
           /\ (n >= 1 /\ n <= StatsSampleLimit)
                 => last.stats.unique_categories = Cardinality(StoredCategories(index))

C19_Witness ==
    /\ last.op = "stats"
    /\ last.fault = "none"
    /\ Len(index) > StatsSampleLimit
    /\ last.stats.total_transactions = Len(index)
    /\ last.stats.unique_categories < Cardinality(StoredCategories(index))


\* C20: no thread is inside collection.add while another thread is inside
\* any index operation (add, query, count or get) of the same engine.
C20_WriterExclusion ==
    \A t, u \in Threads :
        (t # u /\ threads[t].pc = "inside" /\ threads[t].op = "add")
        => threads[u].pc # "inside"


\* C21: in the upload flow the row is in the relational store when the vector
\* add is attempted (the add is made under the id the save returned), and
\* when the vector add fails the row stays and the upload still answers
\* success with the transaction id.
C21_UploadDegradation ==
    last.op = "upload"
    => /\ last.found
       /\ last.tid \in DbIds
       /\ \A i \in 1 .. Len(index) :
             index[i] \notin { last.prev[j] : j \in 1 .. Len(last.prev) }
             => index[i].metadata.transaction_id = last.tid
       /\ last.response = [success |-> TRUE, transaction_id |-> last.tid]

C21_Witness ==
    /\ last.op = "upload"
    /\ last.addResult = "false"
    /\ index = last.prev
    /\ last.tid \in DbIds
    /\ last.response.success


\* the lines of the log of the last request
LogLines == { last.log[i] : i \in 1 .. Len(last.log) }

\* C22: whenever the vector add of an upload fails (the index is left as it
\* was), the boolean result is false, a failure line is logged and no line
\* saying the transaction was added to the vector database is logged.
C22_FailedAddReported ==
    (last.op = "upload" /\ index = last.prev)
    => /\ last.addResult = "false"
       /\ LogLines \cap { LogEngineAddError, LogInitFailed, LogAppAddFailed } # { }
       /\ LogLines \cap { LogEngineAdded, LogAppAdded } = { }


\* C23: a findSimilar, contextFor or stats request leaves the vector index
\* as it was (records, vectors, metadata, documents, count) and the
\* relational store as it was: contextFor only looks a row up.
C23_ReadOnly ==
    [][(last.op = "none" /\ last'.op \in { "find", "context", "stats" })
       => (index' = index /\ db' = db /\ lastRowId' = lastRowId)]_vars

C23_Witness ==
    /\ last.op \in { "find", "context", "stats" }
    /\ rag_engine # 0
    /\ last.fault = "none"
    /\ Len(index) >= 1
    /\ Len(db) >= 1
    /\ index = last.prev


\* records of the index the last request saw that belong to other transactions
OtherRecords == { i \in 1 .. Len(last.prev) : last.prev[i].metadata.transaction_id # last.tid }

\* the own record is among the neighbours the index returned
SelfAmongNeighbours ==
    \E i \in 1 .. Len(LastNeighbours) : LastNeighbours[i].transaction_id = last.tid

RebuiltText(tid) ==
    LET g == GetTransaction(db, tid)
    IN  CreateTransactionText(g.row.vendor, g.row.category, ListOf(g.row.items_json),
                              g.row.date, g.row.amount)

\* C25: after an upload that stored a vector record, the text rebuilt from
\* the relational row of the transaction is the document stored in the index
\* for it.
C25_DescriptionRoundTrip ==
    (last.op = "upload" /\ last.addResult = "true")
    => /\ ~RebuiltText(last.tid).raised
       /\ \A i \in 1 .. Len(index) :
             index[i].metadata.transaction_id = last.tid
             => index[i].document = RebuiltText(last.tid).text


\* C26: the number of items named in the description plus the N of the
\* "and N more items" suffix (0 without suffix) is the number of items that
\* have a name, and there is no suffix when 10 or fewer items have a name.
C26_ItemCountConserved ==
    (built.called /\ ~built.raised)
    => /\ Len(built.text.items) + built.text.more = Len(NamedInputItems)
       /\ Len(NamedInputItems) <= MaxItemsShown => built.text.more = 0


\* C27: with the engine initialised, contextFor(id, k) returns a non-empty
\* result for the transaction id whenever id is in the relational store,
\* whatever the other columns of the row hold, and an empty result only when
\* id is unknown.
C27_KnownIdAnswered ==
    (last.op = "context" /\ rag_engine # 0)
    => (last.found <=> last.tid \in DbIds)


\* C28: every record of the vector index belongs to a transaction that is
\* in the relational store, and findSimilar returns no id of a deleted
\* transaction.
C28_NoOrphanRecords ==
    /\ \A i \in 1 .. Len(index) : index[i].metadata.transaction_id \in DbIds
    /\ last.op = "find"
          => \A i \in 1 .. Len(last.out) : last.out[i].transaction_id \in DbIds


\* C29: at most one RAGEngine instance is ever constructed, and the adds of
\* all threads run on the same instance.
C29_SingleInstance ==
    /\ instances <= 1
    /\ \A t, u \in Threads :
          (threads[t].op = "added" /\ threads[u].op = "added")
          => threads[t].n = threads[u].n


\* what the last request shows when it was not handed to an engine
ReadAnsweredEmpty ==
    /\ last.out = << >>
    /\ ~last.found
    /\ last.stats = NoStats
    /\ last.embedCalls = 0
    /\ ~last.initTried
    /\ ~last.ok

\* what it shows when an engine served it
ServedByEngine ==
    \/ last.op \in { "find", "context" } /\ last.ok
    \/ last.op = "stats" /\ last.stats # NoStats
    \/ last.op = "upload" /\ LogLines \cap { LogEngineAdded, LogEngineAddError } # { }

Reads == { "find", "context", "stats" }

\* C30: while the global engine is None the module-level search, context and
\* statistics return an empty result and do not try to initialise; only the
\* add tries, and it returns false when the attempt fails; once the global is
\* bound it stays bound and every call is served by the engine.
C30_LazyInitialisation ==
    /\ [](/\ (last.op \in Reads /\ rag_engine = 0) => ReadAnsweredEmpty
          /\ (last.op = "upload" /\ rag_engine = 0)
                => (last.initTried /\ last.addResult = "false" /\ index = last.prev)
          /\ (last.op \in Reads \cup { "upload" } /\ rag_engine # 0) => ServedByEngine)
    /\ [][/\ rag_engine # 0 => rag_engine' = rag_engine
          /\ rag_engine' # rag_engine => (last'.op = "upload" /\ last'.initTried)
          /\ last'.op \in Reads => instances' = instances]_vars

C30_Witness ==
    /\ last.op \in Reads
    /\ rag_engine = 0
    /\ Len(db) >= 1
    /\ ReadAnsweredEmpty

====
